---------------------------- MODULE Spec2Model ----------------------------
(***************************************************************************)
(* Model of the video-automation service's resilient-execution core:       *)
(*   - the HTTP trigger surface of server.js (POST /process, POST /stop,   *)
(*     the spawned processor's close/error handlers);                      *)
(*   - RetryHandler (src/utils/retryHandler.js): withRetry,                *)
(*     withCircuitBreaker, isCircuitOpen, recordCircuitBreakerFailure,     *)
(*     resetCircuitBreaker, batchRetry, chunkArray;                        *)
(*   - ProductionVideoProcessor (production-processor.js): main,           *)
(*     processVideos, processVideoPipeline, cleanupTempFiles,              *)
(*     performFinalCleanup, over the ledger of Database                    *)
(*     (processed_videos.json) and VideoManager.markVideoAsFailed.         *)
(***************************************************************************)
EXTENDS Integers, Sequences, FiniteSets, TLC

(***************************************************************************)
(* Bounds of the model.                                                    *)
(***************************************************************************)
\* number of POST /process requests that arrive
MaxTriggers == 3
\* the wall clock runs over 0..MaxTime
MaxTime == 3
\* maxRetries (the spec's maxAttempts) ranges over 1..MaxAttempts
MaxAttempts == 2
\* direct recordCircuitBreakerFailure calls stop at this failure count
MaxFailures == 6
\* batchRetry is given 0..MaxItems operations
MaxItems == 3
\* options.maxConcurrency ranges over 1..MaxConcurrency
MaxConcurrency == 3
\* the loop of chunkArray is followed for at most MaxChunks chunks
MaxChunks == 5
\* the task source lists the videos 1..MaxTasks, in this order
MaxTasks == 2
\* calculateDelay is given baseDelay in 0..MaxBaseDelay,
MaxBaseDelay == 4
\* multiplier in 1..MaxMultiplier,
MaxMultiplier == 3
\* attemptNumber in 0..MaxAttemptNumber,
MaxAttemptNumber == 3
\* and Math.random() yields 0/RandomSteps, ..., (RandomSteps - 1)/RandomSteps
RandomSteps == 10

VARIABLES
  \* ---- server.js ----
  isProcessing,       \* let isProcessing
  lastProcessTime,    \* let lastProcessTime (-1 models null)
  lastProcessResult,  \* let lastProcessResult
  processors,         \* the child processes spawned by runVideoProcessing
  \* ---- observation of the server (history) ----
  response,           \* the HTTP response the last request received
  triggers,           \* number of POST /process requests received so far
  stoppedRuns,        \* processors that were running when POST /stop was accepted
  \* ---- wall clock: Date.now() ----
  now,
  \* ---- retryHandler.js ----
  calls,              \* the withRetry / withCircuitBreaker calls in progress, per caller
  circuitState,       \* this.circuitState, keyed by operation name
  options,            \* the options object the callers pass to withCircuitBreaker
  \* ---- observation of the retry handler (history) ----
  streak,             \* per name: guarded calls failed retriably since the last success
                      \* (counted up to DefaultThreshold)
  sawRetriable,       \* per name: some guarded call failed with a retriable error
  probe,              \* the last isCircuitOpen call: arguments, entry before, result
  \* ---- retryHandler.js: batchRetry ----
  batch,              \* the batchRetry call: arguments, progress, results, errors
  \* ---- production-processor.js, database.js ----
  runs,               \* the processor processes: position in main() and locals
  ledger,             \* data.videos of processed_videos.json: per video, its record
  \* ---- observation of the pipeline (history) ----
  published,          \* the videos some run's upload stage completed for
  \* ---- retryHandler.js: calculateDelay ----
  delayCall,          \* the last calculateDelay call: arguments, random value, result
  chunkCall           \* the chunkArray call in progress: array, chunkSize, i, chunks

serverVars == <<isProcessing, lastProcessTime, lastProcessResult, processors,
                response, triggers, stoppedRuns>>

retryVars == <<calls, circuitState, options, streak, sawRetriable, probe>>

batchVars == <<batch>>

pipelineVars == <<runs, ledger, published>>

delayVars == <<delayCall, chunkCall>>

vars == <<isProcessing, lastProcessTime, lastProcessResult, processors,
          response, triggers, stoppedRuns, now,
          calls, circuitState, options, streak, sawRetriable, probe, batch,
          runs, ledger, published, delayCall, chunkCall>>

(***************************************************************************)
(* server.js: POST /process, runVideoProcessing, POST /stop                *)
(***************************************************************************)
Pids == 1..MaxTriggers

NoResult == [success |-> FALSE, message |-> "null"]

CloseResult(code) ==
  [success |-> (code = 0),
   message |-> IF code = 0 THEN "Processing completed successfully"
                           ELSE "Processing failed"]

ErrorResult == [success |-> FALSE, message |-> "Processing error"]

StartFailedResult == [success |-> FALSE, message |-> "Failed to start processor"]

StoppedResult == [success |-> FALSE, message |-> "Processing stopped manually"]

\* the pipeline executions that are active: child processes that have not ended
ActivePipelines == {p \in Pids : processors[p] = "running"}

\* the next child to spawn
NextPid == CHOOSE p \in Pids : processors[p] = "none" /\
                               \A q \in Pids : q < p => processors[q] # "none"

\* if (isProcessing) return res.status(429)
\* (faulty variant: the busy check left out)
ProcessRejectsNever == FALSE

ProcessRejects == isProcessing

\* return res.status(429).json({ ..., isProcessing: true, lastProcessTime })
\* (faulty variant: the rejected request restarts the clock of the run)
RejectBusyTouchesTime ==
  /\ response' = "busy"
  /\ lastProcessTime' = now
  /\ UNCHANGED <<isProcessing, lastProcessResult, processors>>

RejectBusy ==
  /\ response' = "busy"
  /\ UNCHANGED <<isProcessing, lastProcessTime, lastProcessResult, processors>>

\* app.post("/process"): authOk is the outcome of the token comparison,
\* spawnThrows whether spawn() throws synchronously inside runVideoProcessing
Process(authOk, spawnThrows) ==
  /\ triggers < MaxTriggers
  /\ triggers' = triggers + 1
  /\ IF ProcessRejects
       THEN RejectBusy
       ELSE IF ~authOk
       THEN /\ response' = "unauthorized"
            /\ UNCHANGED <<isProcessing, lastProcessTime, lastProcessResult,
                           processors>>
       ELSE /\ response' = "started"
            /\ lastProcessTime' = now
            /\ IF spawnThrows
                 THEN /\ isProcessing' = FALSE
                      /\ lastProcessResult' = StartFailedResult
                      /\ UNCHANGED processors
                 ELSE /\ isProcessing' = TRUE
                      /\ processors' = [processors EXCEPT ![NextPid] = "running"]
                      /\ UNCHANGED lastProcessResult
  /\ UNCHANGED <<stoppedRuns, now>>
  /\ UNCHANGED retryVars
  /\ UNCHANGED batchVars
  /\ UNCHANGED pipelineVars
  /\ UNCHANGED delayVars

\* processor.on("close", (code) => ...)
ProcessorClose(p, code) ==
  /\ processors[p] = "running"
  /\ processors' = [processors EXCEPT ![p] = "closed"]
  /\ isProcessing' = FALSE
  /\ lastProcessResult' = CloseResult(code)
  /\ UNCHANGED <<lastProcessTime, response, triggers, stoppedRuns, now>>
  /\ UNCHANGED retryVars
  /\ UNCHANGED batchVars
  /\ UNCHANGED pipelineVars
  /\ UNCHANGED delayVars

\* processor.on("error", (error) => ...)
ProcessorError(p) ==
  /\ processors[p] = "running"
  /\ processors' = [processors EXCEPT ![p] = "errored"]
  /\ isProcessing' = FALSE
  /\ lastProcessResult' = ErrorResult
  /\ UNCHANGED <<lastProcessTime, response, triggers, stoppedRuns, now>>
  /\ UNCHANGED retryVars
  /\ UNCHANGED batchVars
  /\ UNCHANGED pipelineVars
  /\ UNCHANGED delayVars

\* app.post("/stop")
Stop(authOk) ==
  /\ IF ~authOk
       THEN /\ response' = "unauthorized"
            /\ UNCHANGED <<isProcessing, lastProcessResult, stoppedRuns>>
       ELSE IF ~isProcessing
       THEN /\ response' = "nothingToStop"
            /\ UNCHANGED <<isProcessing, lastProcessResult, stoppedRuns>>
       ELSE /\ isProcessing' = FALSE
            /\ lastProcessResult' = StoppedResult
            /\ response' = "stopped"
            /\ stoppedRuns' = stoppedRuns \cup ActivePipelines
  /\ UNCHANGED <<lastProcessTime, processors, triggers, now>>
  /\ UNCHANGED retryVars
  /\ UNCHANGED batchVars
  /\ UNCHANGED pipelineVars
  /\ UNCHANGED delayVars

\* the wall clock advances
Tick ==
  /\ now < MaxTime
  /\ now' = now + 1
  /\ UNCHANGED serverVars
  /\ UNCHANGED retryVars
  /\ UNCHANGED batchVars
  /\ UNCHANGED pipelineVars
  /\ UNCHANGED delayVars

(***************************************************************************)
(* retryHandler.js: withRetry                                              *)
(***************************************************************************)
\* the concurrent callers of the retry handler
Callers == {"c1", "c2"}

\* operation names
Names == {"X", "Y"}

\* the errors an operation throws
ErrorKinds == {"transient", "permanent"}

NoError == [kind |-> "none", at |-> 0]

NoAggregate == [operationName |-> "", attempts |-> 0, last |-> NoError]

IdleCall ==
  [pc |-> "idle", name |-> "", guarded |-> FALSE, maxRetries |-> 0,
   attempt |-> 0, invoked |-> 0, slept |-> 0, fails |-> 0, succs |-> 0,
   lastError |-> NoError, outcome |-> "none", result |-> 0,
   error |-> NoAggregate,
   \* the attemptNumber handed to calculateDelay for the last sleep (-1: none)
   delayArg |-> -1]

NewCall(name, maxRetries, guarded) ==
  [IdleCall EXCEPT !.name = name, !.maxRetries = maxRetries,
                   !.guarded = guarded]

\* where a settled withRetry hands over: to the continuation inside
\* withCircuitBreaker, or straight to the caller
SettledPc(c) == IF c.guarded THEN "settled" ELSE "done"

\* for (let attempt = 1; attempt <= maxRetries; attempt++)
\* (faulty variant: attempt < maxRetries)
RetryLoopStopsEarly(attempt, maxRetries) == attempt < maxRetries

RetryLoopContinues(attempt, maxRetries) == attempt <= maxRetries

\* if (attempt < maxRetries) { ... await this.sleep(delay) }
\* (faulty variant: the last attempt is followed by a sleep as well)
SleepsAfterEveryFailure(attempt, maxRetries) == attempt <= maxRetries

SleepsAfterFailure(attempt, maxRetries) == attempt < maxRetries

\* throw new Error(`${operationName} failed after ${maxRetries} attempts.
\*                  Last error: ${lastError.message}`)
Exhausted(c) ==
  [c EXCEPT !.pc = SettledPc(c), !.outcome = "exhausted",
            !.error = [operationName |-> c.name, attempts |-> c.maxRetries,
                       last |-> c.lastError]]

\* the loop head with attempt = a: invoke the operation or leave the loop
EnterLoop(c, a) ==
  IF RetryLoopContinues(a, c.maxRetries)
    THEN [c EXCEPT !.attempt = a, !.invoked = @ + 1, !.pc = "running"]
    ELSE Exhausted([c EXCEPT !.attempt = a])

\* const result = await operation(); ...; return result
\* (faulty variant: the loop goes on after a success)
SucceededRetriesAnyway(c) ==
  LET d == [c EXCEPT !.succs = @ + 1, !.result = c.invoked]
  IN IF d.attempt < d.maxRetries
       THEN [d EXCEPT !.attempt = @ + 1, !.invoked = @ + 1]
       ELSE [d EXCEPT !.pc = SettledPc(c), !.outcome = "ok"]

Succeeded(c) ==
  [c EXCEPT !.succs = @ + 1, !.pc = SettledPc(c), !.outcome = "ok",
            !.result = c.invoked]

\* catch (error) { lastError = error; ... }
Failed(c, kind) ==
  LET d == [c EXCEPT !.lastError = [kind |-> kind, at |-> c.invoked],
                     !.fails = @ + 1]
  IN IF SleepsAfterFailure(d.attempt, d.maxRetries)
       THEN [d EXCEPT !.pc = "sleep", !.slept = @ + 1,
                      !.delayArg = d.attempt - 1]
       ELSE EnterLoop(d, d.attempt + 1)

\* withRetry(operation, maxRetries, operationName): up to the first await
WithRetry(k, name, maxRetries) ==
  /\ calls[k].pc = "idle"
  /\ calls' = [calls EXCEPT ![k] = EnterLoop(NewCall(name, maxRetries, FALSE), 1)]
  /\ UNCHANGED <<circuitState, options, streak, sawRetriable, probe, now>>
  /\ UNCHANGED serverVars
  /\ UNCHANGED batchVars
  /\ UNCHANGED pipelineVars
  /\ UNCHANGED delayVars

\* await operation() resolves
OperationSucceeds(k) ==
  /\ calls[k].pc = "running"
  /\ calls' = [calls EXCEPT ![k] = Succeeded(calls[k])]
  /\ UNCHANGED <<circuitState, options, streak, sawRetriable, probe, now>>
  /\ UNCHANGED serverVars
  /\ UNCHANGED batchVars
  /\ UNCHANGED pipelineVars
  /\ UNCHANGED delayVars

\* await operation() rejects
OperationFails(k, kind) ==
  /\ calls[k].pc = "running"
  /\ calls' = [calls EXCEPT ![k] = Failed(calls[k], kind)]
  /\ UNCHANGED <<circuitState, options, streak, sawRetriable, probe, now>>
  /\ UNCHANGED serverVars
  /\ UNCHANGED batchVars
  /\ UNCHANGED pipelineVars
  /\ UNCHANGED delayVars

\* await this.sleep(delay) resolves; attempt++
SleepEnds(k) ==
  /\ calls[k].pc = "sleep"
  /\ calls' = [calls EXCEPT ![k] = EnterLoop(calls[k], calls[k].attempt + 1)]
  /\ UNCHANGED <<circuitState, options, streak, sawRetriable, probe, now>>
  /\ UNCHANGED serverVars
  /\ UNCHANGED batchVars
  /\ UNCHANGED pipelineVars
  /\ UNCHANGED delayVars

\* the caller receives the result or the error
Return(k) ==
  /\ calls[k].pc = "done"
  /\ calls' = [calls EXCEPT ![k] = IdleCall]
  /\ UNCHANGED <<circuitState, options, streak, sawRetriable, probe, now>>
  /\ UNCHANGED serverVars
  /\ UNCHANGED batchVars
  /\ UNCHANGED pipelineVars
  /\ UNCHANGED delayVars

(***************************************************************************)
(* retryHandler.js: the circuit breaker                                    *)
(***************************************************************************)
\* recordCircuitBreakerFailure(circuitKey, threshold = 5)
DefaultThreshold == 5

\* values of options.circuitBreakerThreshold
Thresholds == {2, DefaultThreshold}

\* values of options.circuitBreakerTimeout and of isCircuitOpen's timeout
Timeouts == {1, 2}

\* options.isRetriableError: the default () => true, or a classifier that
\* accepts only failures whose last underlying error is transient
Classifiers == {"default", "transientOnly"}

DefaultOptions ==
  [circuitBreakerThreshold |-> DefaultThreshold, circuitBreakerTimeout |-> 2,
   isRetriableError |-> "default"]

\* values of options.circuitBreakerTimeout the guarded callers use
GuardedTimeouts == {1}

OptionChoices ==
  [circuitBreakerThreshold : Thresholds, circuitBreakerTimeout : GuardedTimeouts,
   isRetriableError : Classifiers]

\* this.circuitState[circuitKey] === undefined
NoEntry == [present |-> FALSE, failures |-> 0, isOpen |-> FALSE, openedAt |-> -1]

\* state.isOpen && Date.now() - state.openedAt > timeout
\* (faulty variant: >= timeout)
CircuitExpiredAtTimeout(state, timeout, t) ==
  state.isOpen /\ t - state.openedAt >= timeout

CircuitExpired(state, timeout, t) ==
  state.isOpen /\ t - state.openedAt > timeout

\* isCircuitOpen(circuitKey, timeout): the value returned at time t
IsCircuitOpenResult(cs, key, timeout, t) ==
  IF ~cs[key].present THEN FALSE
  ELSE IF CircuitExpired(cs[key], timeout, t) THEN FALSE
  ELSE cs[key].isOpen

\* isCircuitOpen(circuitKey, timeout): this.circuitState afterwards
IsCircuitOpenState(cs, key, timeout, t) ==
  IF cs[key].present /\ CircuitExpired(cs[key], timeout, t)
    THEN [cs EXCEPT ![key] = NoEntry]
    ELSE cs

\* recordCircuitBreakerFailure(circuitKey, threshold): this.circuitState afterwards
\* (faulty variant: the failure is counted twice)
RecordCircuitBreakerFailureTwice(cs, key, threshold, t) ==
  LET old == IF cs[key].present THEN cs[key]
             ELSE [NoEntry EXCEPT !.present = TRUE]
      cnt == [old EXCEPT !.failures = @ + 2]
  IN [cs EXCEPT ![key] = IF cnt.failures >= threshold
                           THEN [cnt EXCEPT !.isOpen = TRUE, !.openedAt = t]
                           ELSE cnt]

RecordCircuitBreakerFailure(cs, key, threshold, t) ==
  LET old == IF cs[key].present THEN cs[key]
             ELSE [NoEntry EXCEPT !.present = TRUE]
      cnt == [old EXCEPT !.failures = @ + 1]
  IN [cs EXCEPT ![key] = IF cnt.failures >= threshold
                           THEN [cnt EXCEPT !.isOpen = TRUE, !.openedAt = t]
                           ELSE cnt]

\* resetCircuitBreaker(circuitKey): this.circuitState afterwards
\* (faulty variant: this.circuitState = {})
ResetCircuitBreakerAll(cs, key) == [n \in Names |-> NoEntry]

ResetCircuitBreaker(cs, key) == [cs EXCEPT ![key] = NoEntry]

\* the threshold withCircuitBreaker records a failure with:
\* this.recordCircuitBreakerFailure(circuitKey) passes none, so the
\* parameter's default applies whatever options.circuitBreakerThreshold is
RecordedThreshold(opts) == DefaultThreshold

\* what the caller's options.isRetriableError answers for the aggregate
\* error of withRetry
ClassifierVerdict(opts, error) ==
  IF opts.isRetriableError = "default" THEN TRUE
  ELSE error.last.kind = "transient"

\* if (isRetriableError(error)) this.recordCircuitBreakerFailure(circuitKey)
\* (faulty variant: every failure is recorded)
RetriableAlways(opts, error) == TRUE

IsRetriableError(opts, error) == ClassifierVerdict(opts, error)

\* if (this.isCircuitOpen(circuitKey, circuitBreakerTimeout)) throw ...
\* (faulty variant: the breaker is not consulted)
GuardAdmitsAlways(cs, key, timeout, t) == FALSE

GuardRejects(cs, key, timeout, t) == IsCircuitOpenResult(cs, key, timeout, t)

\* throw new Error(`Circuit breaker is open for ${operationName}`)
CircuitOpenCall(name, maxRetries) ==
  [NewCall(name, maxRetries, TRUE) EXCEPT !.pc = "done",
                                          !.outcome = "circuitOpen"]

\* withCircuitBreaker(operation, operationName, options): up to the first await
WithCircuitBreaker(k, name, maxRetries) ==
  /\ calls[k].pc = "idle"
  /\ circuitState' = IsCircuitOpenState(circuitState, name,
                                        options.circuitBreakerTimeout, now)
  /\ calls' = [calls EXCEPT ![k] =
       IF GuardRejects(circuitState, name, options.circuitBreakerTimeout, now)
         THEN CircuitOpenCall(name, maxRetries)
         ELSE EnterLoop(NewCall(name, maxRetries, TRUE), 1)]
  /\ UNCHANGED <<options, streak, sawRetriable, probe, now>>
  /\ UNCHANGED serverVars
  /\ UNCHANGED batchVars
  /\ UNCHANGED pipelineVars
  /\ UNCHANGED delayVars

\* withCircuitBreaker after await this.withRetry(...) has settled
GuardedSettle(k) ==
  LET c == calls[k] IN
  /\ c.pc = "settled"
  /\ calls' = [calls EXCEPT ![k].pc = "done"]
  /\ circuitState' =
       IF c.outcome = "ok"
         THEN ResetCircuitBreaker(circuitState, c.name)
       ELSE IF IsRetriableError(options, c.error)
         THEN RecordCircuitBreakerFailure(circuitState, c.name,
                                          RecordedThreshold(options), now)
       ELSE circuitState
  \* history
  /\ IF c.outcome = "ok"
       THEN /\ streak' = [streak EXCEPT ![c.name] = 0]
            /\ UNCHANGED sawRetriable
       ELSE IF ClassifierVerdict(options, c.error)
       THEN /\ streak' = [streak EXCEPT ![c.name] =
                             IF @ < DefaultThreshold THEN @ + 1 ELSE @]
            /\ sawRetriable' = [sawRetriable EXCEPT ![c.name] = TRUE]
       ELSE UNCHANGED <<streak, sawRetriable>>
  /\ UNCHANGED <<options, probe, now>>
  /\ UNCHANGED serverVars
  /\ UNCHANGED batchVars
  /\ UNCHANGED pipelineVars
  /\ UNCHANGED delayVars

(***************************************************************************)
(* retryHandler.js: the breaker's operations called on their own           *)
(***************************************************************************)
NoProbe ==
  [key |-> "", timeout |-> 0, wasPresent |-> FALSE, wasOpen |-> FALSE,
   age |-> 0, result |-> FALSE, presentAfter |-> FALSE]

\* isCircuitOpen(circuitKey, timeout)
IsCircuitOpen(key, timeout) ==
  /\ circuitState' = IsCircuitOpenState(circuitState, key, timeout, now)
  /\ probe' = [key |-> key, timeout |-> timeout,
               wasPresent |-> circuitState[key].present,
               wasOpen |-> circuitState[key].present /\ circuitState[key].isOpen,
               age |-> IF circuitState[key].present /\ circuitState[key].isOpen
                         THEN now - circuitState[key].openedAt ELSE 0,
               result |-> IsCircuitOpenResult(circuitState, key, timeout, now),
               presentAfter |-> circuitState'[key].present]
  /\ UNCHANGED <<calls, options, streak, sawRetriable, now>>
  /\ UNCHANGED serverVars
  /\ UNCHANGED batchVars
  /\ UNCHANGED pipelineVars
  /\ UNCHANGED delayVars

\* recordCircuitBreakerFailure(circuitKey, threshold)
RecordFailure(key, threshold) ==
  /\ circuitState[key].failures < MaxFailures
  /\ circuitState' = RecordCircuitBreakerFailure(circuitState, key, threshold, now)
  /\ UNCHANGED <<calls, options, streak, sawRetriable, probe, now>>
  /\ UNCHANGED serverVars
  /\ UNCHANGED batchVars
  /\ UNCHANGED pipelineVars
  /\ UNCHANGED delayVars

\* resetCircuitBreaker(circuitKey)
ResetBreaker(key) ==
  /\ circuitState' = ResetCircuitBreaker(circuitState, key)
  /\ UNCHANGED <<calls, options, streak, sawRetriable, probe, now>>
  /\ UNCHANGED serverVars
  /\ UNCHANGED batchVars
  /\ UNCHANGED pipelineVars
  /\ UNCHANGED delayVars

(***************************************************************************)
(* retryHandler.js: batchRetry, chunkArray                                 *)
(***************************************************************************)
\* a field that is undefined
Undefined == -1

Min(a, b) == IF a < b THEN a ELSE b

\* chunkArray(array, chunkSize): the chunks from offset i on
RECURSIVE ChunkFrom(_, _, _)
ChunkFrom(array, chunkSize, i) ==
  IF i < Len(array)
    THEN <<SubSeq(array, i + 1, Min(i + chunkSize, Len(array)))>>
           \o ChunkFrom(array, chunkSize, i + chunkSize)
    ELSE <<>>

\* (faulty variant: the whole array as one chunk)
ChunkArrayOneChunk(array, chunkSize) ==
  IF Len(array) = 0 THEN <<>> ELSE <<array>>

ChunkArray(array, chunkSize) == ChunkFrom(array, chunkSize, 0)

\* the operations are numbered 1..n in input order; operation p carries
\* index: p - 1 when the caller set op.index, and no index otherwise
OpIndex(b, p) == IF b.withIndex THEN p - 1 ELSE Undefined

\* op.index || index
EntryIndex(b, p, index) ==
  IF OpIndex(b, p) # Undefined /\ OpIndex(b, p) # 0 THEN OpIndex(b, p) ELSE index

IdleBatch ==
  [pc |-> "idle", n |-> 0, withIndex |-> FALSE, parallel |-> FALSE,
   failFast |-> FALSE, maxConcurrency |-> 1, chunks |-> <<>>, chunkNo |-> 0,
   i |-> 0, item |-> [p \in 1..MaxItems |-> "pending"],
   results |-> <<>>, errors |-> <<>>,
   summary |-> [successCount |-> 0, errorCount |-> 0, totalCount |-> 0]]

\* return { results, errors, successCount, errorCount, totalCount }
Summarize(b) ==
  [b EXCEPT !.pc = "done",
            !.summary = [successCount |-> Len(b.results),
                         errorCount |-> Len(b.errors),
                         totalCount |-> b.n]]

\* chunk.map(async (op, index) => ...): every operation of the chunk is invoked
Dispatch(b, c) ==
  [b EXCEPT !.chunkNo = c,
            !.item = [p \in 1..MaxItems |->
                        IF \E j \in 1..Len(b.chunks[c]) : b.chunks[c][j] = p
                          THEN "running" ELSE b.item[p]]]

\* for (const chunk of chunks): the chunk after chunk c, or the end of the loop
NextChunk(b, c) ==
  IF c < Len(b.chunks) THEN Dispatch(b, c + 1) ELSE Summarize(b)

\* what Promise.allSettled(chunkPromises) yields for the chunk, in chunk order
ChunkSettled(b, chunk) ==
  [j \in 1..Len(chunk) |->
     [rejected |-> (b.item[chunk[j]] = "rejected"),
      success |-> (b.item[chunk[j]] = "ok"),
      index |-> EntryIndex(b, chunk[j], j - 1),
      item |-> chunk[j]]]

Pushed(r) ==
  [success |-> r.success,
   index |-> IF r.rejected THEN Undefined ELSE r.index,
   item |-> r.item]

RECURSIVE MapPushed(_)
MapPushed(rs) ==
  IF rs = <<>> THEN <<>> ELSE <<Pushed(Head(rs))>> \o MapPushed(Tail(rs))

IsSuccess(r) == ~r.rejected /\ r.success

IsFulfilledError(r) == ~r.rejected /\ ~r.success

IsError(r) == r.rejected \/ ~r.success

\* if (result.value.success) results.push(result.value)
ChunkResults(settled) == MapPushed(SelectSeq(settled, IsSuccess))

\* else errors.push(result.value) ... else errors.push({ success: false,
\* error: result.reason })
\* (faulty variant: rejected promises are not pushed)
ChunkErrorsDropRejected(settled) == MapPushed(SelectSeq(settled, IsFulfilledError))

ChunkErrors(settled) == MapPushed(SelectSeq(settled, IsError))

\* sequential mode: operation p (1-based) is invoked, or the loop ends
\* (faulty variant: the operations from i on are all started at once)
SeqInvokeAll(b, p) ==
  IF p <= b.n
    THEN [b EXCEPT !.i = p - 1,
                   !.item = [q \in 1..MaxItems |->
                               IF q >= p /\ q <= b.n THEN "running"
                               ELSE b.item[q]]]
  ELSE Summarize([b EXCEPT !.i = p - 1])

SeqInvoke(b, p) ==
  IF p <= b.n THEN [b EXCEPT !.i = p - 1, !.item[p] = "running"]
  ELSE Summarize([b EXCEPT !.i = p - 1])

\* batchRetry(operations, options): up to the first await
BatchRetry(n, withIndex, parallel, failFast, maxConcurrency) ==
  /\ batch.pc = "idle"
  /\ LET b == [IdleBatch EXCEPT !.n = n, !.withIndex = withIndex,
                                !.parallel = parallel, !.failFast = failFast,
                                !.maxConcurrency = maxConcurrency]
     IN batch' =
          IF parallel
            THEN LET c == [b EXCEPT !.pc = "parallel",
                             !.chunks = ChunkArray([p \in 1..n |-> p],
                                                   maxConcurrency)]
                 IN NextChunk(c, 0)
            ELSE SeqInvoke([b EXCEPT !.pc = "sequential"], 1)
  /\ UNCHANGED <<now>>
  /\ UNCHANGED serverVars
  /\ UNCHANGED retryVars
  /\ UNCHANGED pipelineVars
  /\ UNCHANGED delayVars

\* sequential mode: await this.withRetry(...) settles for operation i
SeqSettle(ok) ==
  LET p == batch.i + 1 IN
  /\ batch.pc = "sequential"
  /\ batch.item[p] = "running"
  /\ batch' =
       IF ok
         THEN SeqInvoke([batch EXCEPT !.item[p] = "ok",
                           !.results = Append(@, [success |-> TRUE,
                                                  index |-> batch.i,
                                                  item |-> p])], p + 1)
         ELSE LET b == [batch EXCEPT !.item[p] = "failed",
                          !.errors = Append(@, [success |-> FALSE,
                                                index |-> batch.i,
                                                item |-> p])]
              IN IF b.failFast THEN Summarize(b) ELSE SeqInvoke(b, p + 1)
  /\ UNCHANGED <<now>>
  /\ UNCHANGED serverVars
  /\ UNCHANGED retryVars
  /\ UNCHANGED pipelineVars
  /\ UNCHANGED delayVars

\* parallel mode: await this.withRetry(...) settles for operation p of the
\* chunk in flight; with failFast a failure rejects the operation's promise
ParSettle(p, ok) ==
  /\ batch.pc = "parallel"
  /\ batch.item[p] = "running"
  /\ batch' = [batch EXCEPT !.item[p] =
                 IF ok THEN "ok"
                 ELSE IF batch.failFast THEN "rejected" ELSE "failed"]
  /\ UNCHANGED <<now>>
  /\ UNCHANGED serverVars
  /\ UNCHANGED retryVars
  /\ UNCHANGED pipelineVars
  /\ UNCHANGED delayVars

\* parallel mode: await Promise.allSettled(chunkPromises) resolves; the
\* outcomes are pushed and the next chunk is dispatched
ParCollect ==
  /\ batch.pc = "parallel"
  /\ batch.chunkNo >= 1
  /\ \A p \in 1..MaxItems : batch.item[p] # "running"
  /\ LET settled == ChunkSettled(batch, batch.chunks[batch.chunkNo])
         b == [batch EXCEPT !.results = @ \o ChunkResults(settled),
                            !.errors = @ \o ChunkErrors(settled)]
     IN batch' = NextChunk(b, batch.chunkNo)
  /\ UNCHANGED <<now>>
  /\ UNCHANGED serverVars
  /\ UNCHANGED retryVars
  /\ UNCHANGED pipelineVars
  /\ UNCHANGED delayVars

(***************************************************************************)
(* production-processor.js: main, processVideos, processVideoPipeline,     *)
(* cleanupTempFiles, performFinalCleanup; database.js: getProcessedVideos, *)
(* markVideoAsProcessed; videoManager.js: markVideoAsFailed                *)
(***************************************************************************)
\* the processor processes (node production-processor.js) that are started
Procs == {"p1", "p2"}

\* video.id of the videos the task source lists, in listing order
Tasks == 1..MaxTasks

\* no video selected
NoVideo == 0

\* the files a run allocates: downloadPath (stage 1), processedPath (stage 2)
Artifacts == {"download", "processed"}

\* the stages of processVideoPipeline: 1 download, 2 process (transform),
\* 3 caption, 4 upload (publish); step 5 is the ledger write
Stages == <<"download", "transform", "caption", "publish">>

RecordStep == 5

\* the local `data` of markVideoAsProcessed before readJson resolved
NoData == [t \in Tasks |-> "unread"]

NoRun ==
  [pc |-> "none", isProcessing |-> FALSE, video |-> NoVideo,
   downloadPath |-> FALSE, processedPath |-> FALSE, tempFiles |-> {},
   data |-> NoData, result |-> "none",
   \* history of the run
   readOk |-> TRUE, invoked |-> <<>>, failedStage |-> 0, cleaned |-> {},
   wrote |-> 0,
   \* the invocations of uploadVideo made by withRetry in Step 4
   uploadAttempts |-> 0]

\* processVideos: finally { this.isProcessing = false; await
\* this.performFinalCleanup() }, entered with the outcome of the try block
\* (faulty variant: the flag is cleared on the normal path only)
FinallyUnlessThrown(run, result) ==
  [run EXCEPT !.isProcessing = (result = "threw"), !.result = result,
              !.pc = "final"]

Finally(run, result) ==
  [run EXCEPT !.isProcessing = FALSE, !.result = result, !.pc = "final"]

\* processVideoPipeline: catch (error) { await this.cleanupTempFiles(...) }
\* (faulty variant: the error leaves processVideoPipeline, and processVideos
\* rethrows it)
CatchRethrows(run, stage) ==
  Finally([run EXCEPT !.failedStage = stage], "threw")

\* (faulty variant: after a failure the run selects a video again)
CatchSelectsAgain(run, stage) ==
  [run EXCEPT !.failedStage = stage, !.pc = "reading", !.uploadAttempts = 0]

Catch(run, stage) == [run EXCEPT !.failedStage = stage, !.pc = "cleanup"]

\* the statement processVideoPipeline awaits after stage `stage` succeeded
\* (faulty variants: the transform stage is skipped; the ledger is written
\* before the upload; the ledger write is left out)
PcAfterSkipsTransform(stage) ==
  CASE stage = 1 -> "caption"
    [] stage = 2 -> "caption"
    [] stage = 3 -> "publish"
    [] stage = 4 -> "recordRead"

PcAfterRecordsFirst(stage) ==
  CASE stage = 1 -> "transform"
    [] stage = 2 -> "caption"
    [] stage = 3 -> "recordRead"
    [] stage = 4 -> "recordRead"

PcAfterSkipsRecord(stage) ==
  CASE stage = 1 -> "transform"
    [] stage = 2 -> "caption"
    [] stage = 3 -> "publish"
    [] stage = 4 -> "cleanup"

PcAfter(stage) ==
  CASE stage = 1 -> "transform"
    [] stage = 2 -> "caption"
    [] stage = 3 -> "publish"
    [] stage = 4 -> "recordRead"

\* the stage a position of the pipeline awaits (0: not a stage)
StageOf(pc) ==
  CASE pc = "download" -> 1
    [] pc = "transform" -> 2
    [] pc = "caption" -> 3
    [] pc = "publish" -> 4
    [] OTHER -> 0

\* stage `stage` resolved: the pipeline goes on to its next await, which
\* invokes the next stage if it is one
StageSucceeded(run, stage) ==
  LET pc == PcAfter(stage) IN
    [run EXCEPT !.pc = pc,
                !.invoked = IF StageOf(pc) # 0 THEN Append(@, StageOf(pc)) ELSE @]

\* processedVideos.map((v) => v.id): the ids that have a record, of either
\* outcome; getProcessedVideos returns [] when the ledger cannot be read
\* (faulty variant: only the ids with a success record)
ProcessedIdsSuccessOnly(readOk) ==
  IF readOk THEN {t \in Tasks : ledger[t] = "success"} ELSE {}

ProcessedIds(readOk) ==
  IF readOk THEN {t \in Tasks : ledger[t] # "none"} ELSE {}

\* availableVideos.find((video) => !processedIds.includes(video.id))
VideoToProcess(processedIds) ==
  IF Tasks \ processedIds = {} THEN NoVideo
  ELSE CHOOSE t \in Tasks \ processedIds :
         \A u \in Tasks \ processedIds : t <= u

\* cleanupTempFiles([downloadPath, processedPath]): the paths that are not null
\* (faulty variant: every artifact, allocated or not)
CleanupPathsAll(run) == Artifacts

CleanupPaths(run) ==
  {a \in Artifacts : \/ a = "download" /\ run.downloadPath
                     \/ a = "processed" /\ run.processedPath}

\* main(): await processor.initialize(); await processor.processVideos() up
\* to its first await; initOk is whether initialize() resolved
Main(p, initOk) ==
  /\ runs[p].pc = "none"
  /\ runs' = [runs EXCEPT ![p] =
       IF initOk THEN [@ EXCEPT !.pc = "listing", !.isProcessing = TRUE]
       ELSE [@ EXCEPT !.pc = "done", !.result = "threw"]]
  /\ UNCHANGED <<ledger, published, now>>
  /\ UNCHANGED serverVars
  /\ UNCHANGED retryVars
  /\ UNCHANGED batchVars
  /\ UNCHANGED delayVars

\* await this.driveService.getNewVideos() settles: it throws, or lists no
\* video, or lists the videos
GetNewVideos(p, listing) ==
  /\ runs[p].pc = "listing"
  /\ runs' = [runs EXCEPT ![p] =
       CASE listing = "throws" -> Finally(@, "threw")
         [] listing = "empty" -> Finally(@, "empty")
         [] listing = "videos" -> [@ EXCEPT !.pc = "reading"]]
  /\ UNCHANGED <<ledger, published, now>>
  /\ UNCHANGED serverVars
  /\ UNCHANGED retryVars
  /\ UNCHANGED batchVars
  /\ UNCHANGED delayVars

\* await this.database.getProcessedVideos() resolves and a video is selected;
\* processVideoPipeline(video) runs up to its first await (stage 1)
GetProcessedVideos(p, readOk) ==
  /\ runs[p].pc = "reading"
  /\ LET video == VideoToProcess(ProcessedIds(readOk)) IN
       runs' = [runs EXCEPT ![p] =
         IF video = NoVideo
           THEN Finally([@ EXCEPT !.readOk = readOk], "empty")
           ELSE [@ EXCEPT !.readOk = readOk, !.video = video,
                          !.pc = "download", !.invoked = <<1>>]]
  /\ UNCHANGED <<ledger, published, now>>
  /\ UNCHANGED serverVars
  /\ UNCHANGED retryVars
  /\ UNCHANGED batchVars
  /\ UNCHANGED delayVars

\* Step 1: downloadPath = await this.driveService.downloadVideo(...)
DownloadVideo(p, ok) ==
  /\ runs[p].pc = "download"
  /\ runs' = [runs EXCEPT ![p] =
       IF ok THEN StageSucceeded([@ EXCEPT !.downloadPath = TRUE,
                                           !.tempFiles = @ \cup {"download"}], 1)
       ELSE Catch(@, 1)]
  /\ UNCHANGED <<ledger, published, now>>
  /\ UNCHANGED serverVars
  /\ UNCHANGED retryVars
  /\ UNCHANGED batchVars
  /\ UNCHANGED delayVars

\* Step 2: processedPath = await this.videoService.processVideo(downloadPath)
ProcessVideo(p, ok) ==
  /\ runs[p].pc = "transform"
  /\ runs' = [runs EXCEPT ![p] =
       IF ok THEN StageSucceeded([@ EXCEPT !.processedPath = TRUE,
                                           !.tempFiles = @ \cup {"processed"}], 2)
       ELSE Catch(@, 2)]
  /\ UNCHANGED <<ledger, published, now>>
  /\ UNCHANGED serverVars
  /\ UNCHANGED retryVars
  /\ UNCHANGED batchVars
  /\ UNCHANGED delayVars

\* Step 3: caption = await this.aiService.generateCaption(video.name), which
\* resolves with a text or with null; caption.substring throws on null
GenerateCaption(p, isNull) ==
  /\ runs[p].pc = "caption"
  /\ runs' = [runs EXCEPT ![p] =
       IF isNull THEN Catch(@, 3) ELSE StageSucceeded(@, 3)]
  /\ UNCHANGED <<ledger, published, now>>
  /\ UNCHANGED serverVars
  /\ UNCHANGED retryVars
  /\ UNCHANGED batchVars
  /\ UNCHANGED delayVars

\* uploadVideoWithRetry: retryHandler.withRetry(..., 3, ...)
UploadMaxRetries == 3

\* withRetry's loop for (attempt = 1; attempt <= maxRetries; attempt++) has
\* ended after `attempts` failed invocations of uploadVideo
\* (faulty variant: the first failure ends the loop)
UploadExhaustedAtFirst(attempts) == attempts >= 1

UploadExhausted(attempts) == attempts >= UploadMaxRetries

\* Step 4: uploadResult = await this.instagramService.uploadVideoWithRetry(...):
\* one invocation of uploadVideo settles; withRetry returns its result, or
\* sleeps and invokes it again, or throws after the last attempt
UploadVideoWithRetry(p, ok) ==
  /\ runs[p].pc = "publish"
  /\ runs' = [runs EXCEPT ![p] =
       LET run == [@ EXCEPT !.uploadAttempts = @ + 1] IN
         IF ok THEN StageSucceeded(run, 4)
         ELSE IF UploadExhausted(run.uploadAttempts) THEN Catch(run, 4)
         ELSE run]
  /\ published' = IF ok THEN published \cup {runs[p].video} ELSE published
  /\ UNCHANGED <<ledger, now>>
  /\ UNCHANGED serverVars
  /\ UNCHANGED retryVars
  /\ UNCHANGED batchVars
  /\ UNCHANGED delayVars

\* Step 5, markVideoAsProcessed: const data = await fs.readJson(...)
MarkRead(p, ok) ==
  /\ runs[p].pc = "recordRead"
  /\ runs' = [runs EXCEPT ![p] =
       IF ok THEN [@ EXCEPT !.data = ledger, !.pc = "recordWrite"]
       ELSE Catch(@, RecordStep)]
  /\ UNCHANGED <<ledger, published, now>>
  /\ UNCHANGED serverVars
  /\ UNCHANGED retryVars
  /\ UNCHANGED batchVars
  /\ UNCHANGED delayVars

\* Step 5, markVideoAsProcessed: data.videos[videoId] = { ..., success: true };
\* await fs.writeJson(..., data); then Step 6 is awaited
MarkWrite(p, ok) ==
  /\ runs[p].pc = "recordWrite"
  /\ runs' = [runs EXCEPT ![p] =
       IF ok THEN [@ EXCEPT !.data = NoData, !.wrote = @ + 1, !.pc = "cleanup"]
       ELSE Catch([@ EXCEPT !.data = NoData], RecordStep)]
  /\ ledger' = IF ok THEN [runs[p].data EXCEPT ![runs[p].video] = "success"]
               ELSE ledger
  /\ UNCHANGED <<published, now>>
  /\ UNCHANGED serverVars
  /\ UNCHANGED retryVars
  /\ UNCHANGED batchVars
  /\ UNCHANGED delayVars

\* cleanupTempFiles: for (const filePath of filePaths) { try { safeDelete }
\* catch { warn } }: the paths whose removal is attempted when the removals
\* of `undeleted` throw
\* (faulty variant: the loop ends at the first removal that throws)
AttemptedUntilFailure(paths, undeleted) ==
  IF "download" \in undeleted THEN paths \ {"processed"} ELSE paths

Attempted(paths, undeleted) == paths

\* await this.cleanupTempFiles([downloadPath, processedPath]) in Step 6 or in
\* the catch block: safeDelete is called for every path that is not null;
\* undeleted are the paths whose safeDelete threw. processVideoPipeline then
\* returns its result and processVideos enters its finally block.
CleanupTempFiles(p, undeleted) ==
  /\ runs[p].pc = "cleanup"
  /\ undeleted \subseteq CleanupPaths(runs[p])
  /\ runs' = [runs EXCEPT ![p] =
       Finally([@ EXCEPT !.cleaned = Attempted(CleanupPaths(runs[p]), undeleted),
                         !.tempFiles =
                            @ \ (Attempted(CleanupPaths(runs[p]), undeleted)
                                   \ undeleted)],
               IF @.failedStage = 0 THEN "success" ELSE "failed")]
  /\ UNCHANGED <<ledger, published, now>>
  /\ UNCHANGED serverVars
  /\ UNCHANGED retryVars
  /\ UNCHANGED batchVars
  /\ UNCHANGED delayVars

\* await this.performFinalCleanup() resolves; main() returns, or rethrows and
\* exits when processVideos threw: the process ends and only its outcome and
\* its flag are left
PerformFinalCleanup(p) ==
  /\ runs[p].pc = "final"
  /\ runs' = [runs EXCEPT ![p] =
       [NoRun EXCEPT !.pc = "done", !.result = runs[p].result,
                     !.isProcessing = runs[p].isProcessing]]
  /\ UNCHANGED <<ledger, published, now>>
  /\ UNCHANGED serverVars
  /\ UNCHANGED retryVars
  /\ UNCHANGED batchVars
  /\ UNCHANGED delayVars

\* VideoManager.markVideoAsFailed(videoId, error, retryable):
\* markVideoAsProcessed(videoId, { success: false, error, retryable }), its
\* read and write of the ledger taken as one step
MarkVideoAsFailed(t) ==
  /\ ledger[t] # "failed"
  /\ ledger' = [ledger EXCEPT ![t] = "failed"]
  /\ UNCHANGED <<runs, published, now>>
  /\ UNCHANGED serverVars
  /\ UNCHANGED retryVars
  /\ UNCHANGED batchVars
  /\ UNCHANGED delayVars

(***************************************************************************)
(* retryHandler.js: calculateDelay                                         *)
(***************************************************************************)
NoDelayCall ==
  [called |-> FALSE, baseDelay |-> 0, attemptNumber |-> 0, multiplier |-> 1,
   random |-> 0, result |-> 0]

\* Math.pow(multiplier, attemptNumber)
RECURSIVE Pow(_, _)
Pow(multiplier, attemptNumber) ==
  IF attemptNumber = 0 THEN 1
  ELSE multiplier * Pow(multiplier, attemptNumber - 1)

\* const exponentialDelay = baseDelay * Math.pow(multiplier, attemptNumber)
ExponentialDelay(baseDelay, attemptNumber, multiplier) ==
  baseDelay * Pow(multiplier, attemptNumber)

\* the jitter is Math.random() * 0.1 * exponentialDelay: one in JitterDivisor
JitterDivisor == 10

\* Math.floor(exponentialDelay + jitter), with Math.random() = random/RandomSteps:
\* the floor of exponentialDelay * (1 + random / (RandomSteps * JitterDivisor))
\* (faulty variant: the jitter is taken off the exponential delay)
FlooredDelayJitterBelow(exponentialDelay, random) ==
  (exponentialDelay * RandomSteps * JitterDivisor - random * exponentialDelay)
    \div (RandomSteps * JitterDivisor)

FlooredDelay(exponentialDelay, random) ==
  (exponentialDelay * RandomSteps * JitterDivisor + random * exponentialDelay)
    \div (RandomSteps * JitterDivisor)

\* calculateDelay(baseDelay, attemptNumber, multiplier), random being the
\* value Math.random() yields
CalculateDelay(baseDelay, attemptNumber, multiplier, random) ==
  /\ delayCall' =
       [called |-> TRUE, baseDelay |-> baseDelay,
        attemptNumber |-> attemptNumber, multiplier |-> multiplier,
        random |-> random,
        result |-> FlooredDelay(ExponentialDelay(baseDelay, attemptNumber,
                                                 multiplier), random)]
  /\ UNCHANGED <<now, chunkCall>>
  /\ UNCHANGED serverVars
  /\ UNCHANGED retryVars
  /\ UNCHANGED batchVars
  /\ UNCHANGED pipelineVars

(***************************************************************************)
(* Specifications                                                          *)
(***************************************************************************)
(* retryHandler.js: the loop of chunkArray                                 *)
(***************************************************************************)
\* the elements of the arrays chunkArray is called with
Elements == {"a", "b"}

\* the arrays of at most n elements
RECURSIVE ArraysUpTo(_)
ArraysUpTo(n) ==
  IF n = 0 THEN {<<>>}
  ELSE LET shorter == ArraysUpTo(n - 1) IN
         shorter \cup {Append(a, e) : a \in {b \in shorter : Len(b) = n - 1},
                                      e \in Elements}

NoChunkCall == [pc |-> "idle", array |-> <<>>, chunkSize |-> 0, i |-> 0,
                chunks |-> <<>>]

\* array.slice(start, end) for 0 <= start <= end
Slice(array, start, end) == SubSeq(array, start + 1, Min(end, Len(array)))

\* chunkArray(array, chunkSize): const chunks = []; let i = 0
ChunkArrayCall(array, chunkSize) ==
  /\ chunkCall.pc = "idle"
  /\ chunkCall' = [pc |-> "loop", array |-> array, chunkSize |-> chunkSize,
                   i |-> 0, chunks |-> <<>>]
  /\ UNCHANGED <<now, delayCall>>
  /\ UNCHANGED serverVars
  /\ UNCHANGED retryVars
  /\ UNCHANGED batchVars
  /\ UNCHANGED pipelineVars

\* one test of i < array.length: the body and i += chunkSize, or the end of
\* the loop
ChunkLoop ==
  /\ chunkCall.pc = "loop"
  /\ Len(chunkCall.chunks) < MaxChunks
  /\ chunkCall' =
       IF chunkCall.i < Len(chunkCall.array)
         THEN [chunkCall EXCEPT
                 !.chunks = Append(@, Slice(chunkCall.array, chunkCall.i,
                                            chunkCall.i + chunkCall.chunkSize)),
                 !.i = @ + chunkCall.chunkSize]
         ELSE [chunkCall EXCEPT !.pc = "done"]
  /\ UNCHANGED <<now, delayCall>>
  /\ UNCHANGED serverVars
  /\ UNCHANGED retryVars
  /\ UNCHANGED batchVars
  /\ UNCHANGED pipelineVars

\* return chunks
ChunkReturn ==
  /\ chunkCall.pc = "done"
  /\ chunkCall' = NoChunkCall
  /\ UNCHANGED <<now, delayCall>>
  /\ UNCHANGED serverVars
  /\ UNCHANGED retryVars
  /\ UNCHANGED batchVars
  /\ UNCHANGED pipelineVars

(***************************************************************************)
InitWith(opts) ==
  /\ isProcessing = FALSE
  /\ lastProcessTime = -1
  /\ lastProcessResult = NoResult
  /\ processors = [p \in Pids |-> "none"]
  /\ response = "none"
  /\ triggers = 0
  /\ stoppedRuns = {}
  /\ now = 0
  /\ calls = [k \in Callers |-> IdleCall]
  /\ circuitState = [n \in Names |-> NoEntry]
  /\ options = opts
  /\ streak = [n \in Names |-> 0]
  /\ sawRetriable = [n \in Names |-> FALSE]
  /\ probe = NoProbe
  /\ batch = IdleBatch
  /\ runs = [p \in Procs |-> NoRun]
  /\ ledger = [t \in Tasks |-> "none"]
  /\ published = {}
  /\ delayCall = NoDelayCall
  /\ chunkCall = NoChunkCall

Init == InitWith(DefaultOptions)

\* the callers' options object is any of OptionChoices
InitBreaker == \E opts \in OptionChoices : InitWith(opts)

TriggerAction == \E authOk \in BOOLEAN, spawnThrows \in BOOLEAN :
                    Process(authOk, spawnThrows)

CloseAction == \E p \in Pids, code \in {0, 1} : ProcessorClose(p, code)

ErrorAction == \E p \in Pids : ProcessorError(p)

StopAction == \E authOk \in BOOLEAN : Stop(authOk)

\* the trigger surface without POST /stop
NextServerNoStop == TriggerAction \/ CloseAction \/ ErrorAction \/ Tick

SpecServerNoStop == Init /\ [][NextServerNoStop]_vars

\* the whole trigger surface
NextServer == TriggerAction \/ CloseAction \/ ErrorAction \/ StopAction \/ Tick

SpecServer == Init /\ [][NextServer]_vars

WithRetryAction == \E k \in Callers, name \in Names, maxRetries \in 1..MaxAttempts :
                      WithRetry(k, name, maxRetries)

SucceedsAction == \E k \in Callers : OperationSucceeds(k)

FailsAction == \E k \in Callers, kind \in ErrorKinds : OperationFails(k, kind)

SleepEndsAction == \E k \in Callers : SleepEnds(k)

ReturnAction == \E k \in Callers : Return(k)

\* concurrent withRetry calls
NextRetry == WithRetryAction \/ SucceedsAction \/ FailsAction \/ SleepEndsAction
               \/ ReturnAction

SpecRetry == Init /\ [][NextRetry]_vars

\* the operation names the guarded calls of SpecBreaker use
GuardedNames == {"X"}

GuardedAction == \E k \in Callers, name \in GuardedNames, maxRetries \in 1..MaxAttempts :
                    WithCircuitBreaker(k, name, maxRetries)

SettleAction == \E k \in Callers : GuardedSettle(k)

\* concurrent withCircuitBreaker calls while the clock runs
NextBreaker == GuardedAction \/ SucceedsAction \/ FailsAction \/ SleepEndsAction
                 \/ SettleAction \/ ReturnAction \/ Tick

SpecBreaker == InitBreaker /\ [][NextBreaker]_vars

\* callers that configure a threshold above the default:
\* withCircuitBreaker(op, "X", { circuitBreakerThreshold: 6 })
HighThresholdOptions ==
  [DefaultOptions EXCEPT !.circuitBreakerThreshold = DefaultThreshold + 1,
                         !.circuitBreakerTimeout = 1]

SpecBreakerHigh == InitWith(HighThresholdOptions) /\ [][NextBreaker]_vars

IsCircuitOpenAction == \E key \in Names, timeout \in Timeouts :
                          IsCircuitOpen(key, timeout)

RecordFailureAction == \E key \in Names, threshold \in Thresholds :
                          RecordFailure(key, threshold)

ResetBreakerAction == \E key \in Names : ResetBreaker(key)

\* the breaker's operations called directly while the clock runs
NextRegistry == IsCircuitOpenAction \/ RecordFailureAction \/ ResetBreakerAction
                  \/ Tick

SpecRegistry == Init /\ [][NextRegistry]_vars

\* one caller's guarded calls for either name, of one attempt each
GuardedEitherAction == \E name \in Names : WithCircuitBreaker("c1", name, 1)

\* guarded calls and resets for two names while the clock runs
NextNames == GuardedEitherAction \/ SucceedsAction \/ FailsAction \/ SettleAction
               \/ ReturnAction \/ ResetBreakerAction \/ Tick

SpecNames == Init /\ [][NextNames]_vars

BatchRetryAction ==
  \E n \in 0..MaxItems, withIndex \in BOOLEAN, parallel \in BOOLEAN,
     failFast \in BOOLEAN, maxConcurrency \in 1..MaxConcurrency :
    BatchRetry(n, withIndex, parallel, failFast, maxConcurrency)

SeqSettleAction == \E ok \in BOOLEAN : SeqSettle(ok)

ParSettleAction == \E p \in 1..MaxItems, ok \in BOOLEAN : ParSettle(p, ok)

\* one batchRetry call
NextBatch == BatchRetryAction \/ SeqSettleAction \/ ParSettleAction \/ ParCollect

SpecBatch == Init /\ [][NextBatch]_vars

MainAction == \E p \in Procs, initOk \in BOOLEAN : Main(p, initOk)

ListingAction ==
  \E p \in Procs, listing \in {"throws", "empty", "videos"} :
    GetNewVideos(p, listing)

SelectAction == \E p \in Procs, readOk \in BOOLEAN : GetProcessedVideos(p, readOk)

StageAction ==
  \E p \in Procs, ok \in BOOLEAN :
    \/ DownloadVideo(p, ok)
    \/ ProcessVideo(p, ok)
    \/ GenerateCaption(p, ~ok)
    \/ UploadVideoWithRetry(p, ok)

RecordAction == \E p \in Procs, ok \in BOOLEAN : MarkRead(p, ok) \/ MarkWrite(p, ok)

CleanupAction ==
  \E p \in Procs :
    \/ \E undeleted \in SUBSET Artifacts : CleanupTempFiles(p, undeleted)
    \/ PerformFinalCleanup(p)

MarkFailedAction == \E t \in Tasks : MarkVideoAsFailed(t)

NextPipeline ==
  MainAction \/ ListingAction \/ SelectAction \/ StageAction \/ RecordAction
    \/ CleanupAction \/ MarkFailedAction

SpecPipeline == Init /\ [][NextPipeline]_vars

\* The trigger surface and the processor checked for progress. They are
\* separate programs (the processor also runs without the server, from the
\* command line or the scheduler), so a behaviour here follows one of them
\* from the initial state: the server with its spawned processors, or the
\* processor processes with their pipelines.
ServerUntouched ==
  triggers = 0 /\ response = "none" /\ \A p \in Pids : processors[p] = "none"

PipelineUntouched == \A p \in Procs : runs[p].pc = "none"

\* the spawned processor p ends: its close or its error event is delivered
ProcessorEnds(p) ==
  PipelineUntouched /\ (ProcessorError(p) \/ \E code \in {0, 1} : ProcessorClose(p, code))

\* the await that processor process p is suspended in settles
AwaitSettles(p) ==
  /\ ServerUntouched
  /\ \/ \E listing \in {"throws", "empty", "videos"} : GetNewVideos(p, listing)
     \/ \E readOk \in BOOLEAN : GetProcessedVideos(p, readOk)
     \/ \E ok \in BOOLEAN :
          \/ DownloadVideo(p, ok)
          \/ ProcessVideo(p, ok)
          \/ GenerateCaption(p, ~ok)
          \/ UploadVideoWithRetry(p, ok)
          \/ MarkRead(p, ok)
          \/ MarkWrite(p, ok)
     \/ \E undeleted \in SUBSET Artifacts : CleanupTempFiles(p, undeleted)
     \/ PerformFinalCleanup(p)

ServerStep == PipelineUntouched /\ (TriggerAction \/ StopAction)

ProcessorEndsAction == \E p \in Pids : ProcessorEnds(p)

ProcessorStartsAction == ServerUntouched /\ MainAction

AwaitSettlesAction == \E p \in Procs : AwaitSettles(p)

CalculateDelayAction ==
  \E baseDelay \in 0..MaxBaseDelay, attemptNumber \in 0..MaxAttemptNumber,
     multiplier \in 1..MaxMultiplier, random \in 0..(RandomSteps - 1) :
    CalculateDelay(baseDelay, attemptNumber, multiplier, random)

NextDelay == CalculateDelayAction

\* chunkArray is called by batchRetry with options.maxConcurrency, which a
\* caller may set to 0
ChunkArrayAction ==
  \E array \in ArraysUpTo(MaxItems), chunkSize \in 0..MaxConcurrency :
    ChunkArrayCall(array, chunkSize)

NextChunkArray == ChunkArrayAction \/ ChunkLoop \/ ChunkReturn

SpecChunkArray == Init /\ [][NextChunkArray]_vars

SpecDelay == Init /\ [][NextDelay]_vars

NextLive ==
  ServerStep \/ ProcessorEndsAction \/ ProcessorStartsAction \/ AwaitSettlesAction

\* every spawned child process ends, and every await of a processor settles
Fairness ==
  /\ \A p \in Pids : WF_vars(ProcessorEnds(p))
  /\ \A p \in Procs : WF_vars(AwaitSettles(p))

SpecLive == Init /\ [][NextLive]_vars /\ Fairness

Next == NextServer \/ NextRetry \/ NextBreaker \/ NextRegistry \/ NextBatch \/ NextPipeline \/ NextDelay
          \/ NextNames \/ NextChunkArray

Spec == Init /\ [][Next]_vars

(***************************************************************************)
(* Properties                                                              *)
(***************************************************************************)
\* a step in which a POST /process request is handled
TriggerStep == triggers' = triggers + 1

\* C1: without stop(), at most one pipeline execution is active at any time,
\* inFlight is true exactly while one is active, and a trigger that arrives
\* while inFlight is true gets the busy signal and starts nothing.
C1_SingleFlightNoStop ==
  /\ [](Cardinality(ActivePipelines) <= 1)
  /\ [](isProcessing <=> ActivePipelines # {})
  /\ [][(TriggerStep /\ isProcessing) =>
          (response' = "busy" /\ processors' = processors /\ isProcessing')]_vars
  /\ [][(TriggerStep /\ processors' # processors) =>
          (~isProcessing /\ response' = "started")]_vars

\* a second trigger was rejected while the first run is active
C1_Witness ==
  /\ triggers >= 2
  /\ response = "busy"
  /\ isProcessing
  /\ Cardinality(ActivePipelines) = 1

\* C2: with stop() in play, at most one pipeline execution is active.
C2_AtMostOnePipeline == Cardinality(ActivePipelines) <= 1

\* C3: when a run that was stopped finishes, the reported outcome is the
\* manual-stop failure and inFlight is false.
C3_StoppedOutcomeKept ==
  [][\A p \in stoppedRuns :
       (processors[p] = "running" /\ processors'[p] # "running") =>
          (lastProcessResult' = StoppedResult /\ ~isProcessing')]_vars

\* C4: an operation that fails on every invocation is invoked exactly
\* maxRetries times, and the call then fails with the aggregate error that
\* names the operation, reports maxRetries and wraps the last error thrown.
C4_AllFailExhausts ==
  \A k \in Callers :
    LET c == calls[k] IN
      /\ c.invoked <= c.maxRetries
      /\ (c.pc = "done" /\ c.succs = 0) =>
           /\ c.outcome = "exhausted"
           /\ c.invoked = c.maxRetries
           /\ c.fails = c.maxRetries
           /\ c.lastError.kind \in ErrorKinds
           /\ c.error = [operationName |-> c.name, attempts |-> c.maxRetries,
                         last |-> [kind |-> c.lastError.kind,
                                   at |-> c.maxRetries]]

\* a call with maxRetries >= 2 whose invocations all failed has returned
C4_Witness ==
  \E k \in Callers :
    /\ calls[k].pc = "done"
    /\ calls[k].outcome = "exhausted"
    /\ calls[k].maxRetries >= 2
    /\ calls[k].fails = calls[k].maxRetries

\* C5: a successful call is never retried: once an invocation has succeeded
\* (the k-th) the call has settled with the result of that invocation, after
\* k invocations, k-1 failures and k-1 sleeps.
C5_NoRetryAfterSuccess ==
  \A k \in Callers :
    LET c == calls[k] IN
      /\ c.succs <= 1
      /\ c.succs = 1 =>
           /\ c.pc \in {"settled", "done"}
           /\ c.outcome = "ok"
           /\ c.result = c.invoked
           /\ c.invoked \in 1..c.maxRetries
           /\ c.fails = c.invoked - 1
           /\ c.slept = c.invoked - 1

\* a call succeeded at its second attempt
C5_Witness ==
  \E k \in Callers :
    /\ calls[k].pc = "done"
    /\ calls[k].outcome = "ok"
    /\ calls[k].invoked = 2
    /\ calls[k].slept = 1

\* C6: when the number of guarded calls for a name that failed retriably
\* with no success in between reaches options.circuitBreakerThreshold, the
\* breaker of that name is open.
C6_OpensAtConfiguredThreshold ==
  [][\A n \in Names :
       (streak'[n] # streak[n] /\ streak'[n] = options.circuitBreakerThreshold)
         => (circuitState'[n].present /\ circuitState'[n].isOpen)]_vars

\* C7 as stated: isCircuitOpen answers true iff the entry is open and
\* now - openedAt < timeout, and with now - openedAt >= timeout it answers
\* false and deletes the entry.
C7_ClosedAtTimeout ==
  probe.key # "" =>
    /\ probe.result <=> (probe.wasOpen /\ probe.age < probe.timeout)
    /\ (probe.wasOpen /\ probe.age >= probe.timeout) =>
         (~probe.result /\ ~probe.presentAfter)

\* C7 amended: isCircuitOpen answers true iff the entry is open and
\* now - openedAt <= timeout; with now - openedAt > timeout it answers false
\* and deletes the entry; with no entry it answers false and creates none.
C7_ClosedAfterTimeout ==
  probe.key # "" =>
    /\ probe.result <=> (probe.wasOpen /\ probe.age <= probe.timeout)
    /\ (probe.wasOpen /\ probe.age > probe.timeout) =>
         (~probe.result /\ ~probe.presentAfter)
    /\ ~probe.wasPresent => (~probe.result /\ ~probe.presentAfter)

\* isCircuitOpen was called exactly timeout after the breaker opened
C7_Witness ==
  /\ probe.key # ""
  /\ probe.wasOpen
  /\ probe.age = probe.timeout
  /\ probe.result
  /\ probe.presentAfter

\* C8: a guarded call made while isCircuitOpen answers true fails at once
\* with the circuit-open error, invokes the operation not once, and leaves
\* this.circuitState as it was.
C8_OpenFailsFast ==
  /\ [](\A k \in Callers :
          calls[k].outcome = "circuitOpen" =>
            (calls[k].invoked = 0 /\ calls[k].pc = "done"))
  /\ [][\A k \in Callers :
          (/\ calls[k].pc = "idle"
           /\ calls'[k].pc # "idle"
           /\ calls'[k].guarded
           /\ IsCircuitOpenResult(circuitState, calls'[k].name,
                                  options.circuitBreakerTimeout, now))
          => (/\ calls'[k].outcome = "circuitOpen"
              /\ calls'[k].invoked = 0
              /\ circuitState' = circuitState)]_vars

\* a guarded call was refused while the breaker is open
C8_Witness ==
  \E k \in Callers :
    /\ calls[k].outcome = "circuitOpen"
    /\ circuitState[calls[k].name].isOpen
    /\ circuitState[calls[k].name].failures >= DefaultThreshold

\* the failure of call c is one the caller's classifier calls non-retriable
NonRetriable(c) ==
  /\ c.outcome = "exhausted"
  /\ options.isRetriableError = "transientOnly"
  /\ c.error.last.kind = "permanent"

\* C9: a guarded call whose failure is classified non-retriable leaves the
\* breaker untouched, and as long as no guarded call for a name has failed
\* retriably the breaker of that name has no entry (so it is not open).
C9_NonRetriableNotCounted ==
  /\ [](\A n \in Names : ~sawRetriable[n] => ~circuitState[n].present)
  /\ [][\A k \in Callers :
          (calls[k].pc = "settled" /\ calls'[k].pc = "done"
             /\ NonRetriable(calls[k]))
          => circuitState' = circuitState]_vars

\* a guarded call failed non-retriably and the breaker has no entry
C9_Witness ==
  \E k \in Callers :
    /\ calls[k].pc = "done"
    /\ calls[k].guarded
    /\ NonRetriable(calls[k])
    /\ ~circuitState[calls[k].name].present

\* C10 as stated: the summary batchRetry returns has
\* successCount + errorCount = totalCount.
C10_CountsAddUp ==
  batch.pc = "done" =>
    batch.summary.successCount + batch.summary.errorCount
      = batch.summary.totalCount

\* the operations of the batch that failed
FailedItems == {p \in 1..batch.n : batch.item[p] \in {"failed", "rejected"}}

\* C10 amended: the counts add up to totalCount in parallel mode and in
\* sequential mode without failFast; in sequential mode with failFast the
\* batch stops at the first failing operation, so the counts add up to that
\* operation's position (errorCount = 1), which is at most totalCount; with
\* no failing operation they add up to totalCount.
C10_CountsAddUpUnlessStopped ==
  batch.pc = "done" =>
    LET sum == batch.summary.successCount + batch.summary.errorCount IN
      /\ batch.summary.totalCount = batch.n
      /\ batch.summary.errorCount = Cardinality(FailedItems)
      /\ IF ~batch.parallel /\ batch.failFast /\ FailedItems # {}
           THEN /\ batch.summary.errorCount = 1
                /\ \A p \in FailedItems : sum = p
                /\ sum <= batch.summary.totalCount
           ELSE sum = batch.summary.totalCount

\* a parallel failFast batch over two chunks with a failure in the first chunk
\* has returned
C10_Witness ==
  /\ batch.pc = "done"
  /\ batch.parallel
  /\ batch.failFast
  /\ Len(batch.chunks) >= 2
  /\ batch.item[1] = "rejected"
  /\ batch.summary.successCount >= 1

\* C11: in parallel mode with failFast, once an operation of a chunk has
\* failed no operation of a later chunk is invoked (an operation starts
\* running only while no operation of the batch has failed), and a chunk's
\* outcomes are collected only when all of its operations have settled.
C11_NoChunkAfterFailure ==
  [][(batch.pc = "parallel" /\ batch.failFast) =>
       /\ \A p \in 1..MaxItems :
            (batch.item[p] # "running" /\ batch'.item[p] = "running") =>
              FailedItems = {}
       /\ (batch'.chunkNo # batch.chunkNo \/ batch'.pc # batch.pc) =>
            \A p \in 1..MaxItems : batch.item[p] # "running"]_vars

\* C12: in parallel mode every entry of results and errors carries the
\* original (0-based) input index of its operation, so the indexes of a batch
\* are pairwise distinct and sorting by index gives the input order.
C12_EntriesCarryInputIndex ==
  (batch.pc = "done" /\ batch.parallel) =>
    LET entries == batch.results \o batch.errors IN
      /\ \A e \in 1..Len(entries) : entries[e].index = entries[e].item - 1
      /\ \A e, f \in 1..Len(entries) :
           e # f => entries[e].index # entries[f].index

\* C20: a trigger rejected as busy changes no state: the flag is true before
\* and after, lastProcessTime, lastProcessResult and the processors are as
\* they were (nothing is spawned); and no trigger ever clears a set flag, so
\* the flag of the run in flight is cleared only by that run's close or error
\* handler or by POST /stop.
C20_BusyRejectionChangesNothing ==
  [][/\ (TriggerStep /\ response' = "busy") =>
          /\ isProcessing /\ isProcessing'
          /\ lastProcessTime' = lastProcessTime
          /\ lastProcessResult' = lastProcessResult
          /\ processors' = processors
          /\ stoppedRuns' = stoppedRuns
     /\ (isProcessing /\ ~isProcessing') =>
          /\ ~TriggerStep
          /\ \/ \E p \in Pids : processors[p] = "running" /\ processors'[p] # "running"
             \/ response' = "stopped"]_vars

\* a trigger has been rejected as busy at a later time than the run in flight
\* started, and the run is still in flight
C20_Witness ==
  /\ response = "busy"
  /\ isProcessing
  /\ ActivePipelines # {}
  /\ lastProcessTime < now

\* C13: once a success record for a video is in the ledger, no run selects
\* that video and no run invokes a stage for it while the record is present.
C13_SuccessNeverReprocessed ==
  [][\A p \in Procs, t \in Tasks :
       (ledger[t] = "success" /\ runs'[p].video = t) =>
         /\ runs[p].video = t
         /\ Len(runs'[p].invoked) = Len(runs[p].invoked)]_vars

\* the step in which run p reads the ledger and selects
Selecting(p) == runs[p].pc = "reading" /\ runs'[p].pc # "reading"

\* the first listed video outside the set ids, NoVideo if there is none
FirstOutside(ids) ==
  IF \E t \in Tasks : t \notin ids
    THEN CHOOSE t \in Tasks : t \notin ids /\ \A u \in 1..(t - 1) : u \in ids
    ELSE NoVideo

Returned(p) == runs[p].pc = "final" /\ runs[p].video # NoVideo

C16_PublishThenRecord ==
  [][/\ \A p \in Procs :
          runs'[p].wrote > runs[p].wrote =>
            /\ runs[p].video \in published
            /\ runs[p].invoked = <<1, 2, 3, 4>>
            /\ runs[p].failedStage = 0
     /\ \A t \in Tasks : ledger'[t] = "success" => t \in published']_vars

\* a success record has been written
C16_Witness ==
  \E p \in Procs :
    runs[p].wrote = 1 /\ ledger[runs[p].video] = "success"

\* s is a prefix of the sequence seq
IsPrefix(s, seq) == Len(s) <= Len(seq) /\ \A i \in 1..Len(s) : s[i] = seq[i]

\* C17: the stages are invoked in the order 1, 2, 3, 4 with none skipped;
\* stage i + 1 is invoked only in the step in which stage i succeeded, with
\* the file stage i produced at hand, and after a failure no stage is invoked.
C17_StagesInOrder ==
  [][\A p \in Procs :
       /\ IsPrefix(runs'[p].invoked, <<1, 2, 3, 4>>)
       /\ Len(runs'[p].invoked) > Len(runs[p].invoked) =>
            /\ runs[p].failedStage = 0 /\ runs'[p].failedStage = 0
            /\ Len(runs'[p].invoked) = Len(runs[p].invoked) + 1
            /\ StageOf(runs[p].pc) = Len(runs[p].invoked)
            /\ StageOf(runs'[p].pc) = Len(runs'[p].invoked)
            /\ Len(runs'[p].invoked) >= 2 => runs'[p].downloadPath
            /\ Len(runs'[p].invoked) >= 3 => runs'[p].processedPath
       /\ runs'[p].failedStage \in 1..4 =>
            runs'[p].invoked = [i \in 1..runs'[p].failedStage |-> i]]_vars

\* a run is in its upload stage, and the other run has failed in an earlier
\* stage
C17_Witness ==
  \E p, q \in Procs :
    /\ runs[p].pc = "publish" /\ runs[p].invoked = <<1, 2, 3, 4>>
    /\ runs[q].failedStage = 2 /\ runs[q].pc = "final"

\* the artifacts of the stages that completed before stage k
CompletedArtifacts(k) ==
  {a \in Artifacts : (a = "download" /\ k > 1) \/ (a = "processed" /\ k > 2)}

\* C18: when stage k fails, the cleanup is invoked for the artifact of every
\* stage completed before k and for nothing else (stage 3: the download and
\* the processed file; stage 1: nothing).
C18_CompensatesCompleted ==
  \A p \in Procs :
    (Returned(p) /\ runs[p].failedStage # 0) =>
      runs[p].cleaned = CompletedArtifacts(runs[p].failedStage)

\* one run failed in stage 3 and cleaned both files up, the other failed in
\* stage 1 and cleaned nothing up
C18_Witness ==
  \E p, q \in Procs :
    /\ Returned(p) /\ runs[p].failedStage = 3 /\ runs[p].cleaned = Artifacts
    /\ Returned(q) /\ runs[q].failedStage = 1 /\ runs[q].cleaned = {}

\* C19: every accepted run eventually clears its in-flight flag, whatever its
\* exit path: the server's isProcessing, set when a trigger is accepted, is
\* cleared again (processor closed with either exit code, processor error,
\* spawn failure, POST /stop), and a processor's own isProcessing, set when
\* processVideos starts, is cleared again (success, stage failure, task
\* source failure, no video to process).
C19_FlagEventuallyCleared ==
  /\ isProcessing ~> ~isProcessing
  /\ \A p \in Procs : runs[p].isProcessing ~> ~runs[p].isProcessing

\* a run whose stage failed is in its cleanup with its flag still set
C19_Witness ==
  \E p \in Procs :
    /\ runs[p].isProcessing
    /\ runs[p].pc = "cleanup"
    /\ runs[p].failedStage \in 1..4

\* C21: an operation that fails with a permanent error is not retried: the
\* call that saw a permanent error has invoked the operation exactly once and
\* has settled with the failure.
C21_PermanentNotRetried ==
  \A k \in Callers :
    calls[k].lastError.kind = "permanent" =>
      /\ calls[k].invoked = 1
      /\ calls[k].pc \in {"settled", "done"}

\* C22: a caption stage that yields no caption does not fail the pipeline:
\* whatever generateCaption resolves with, the run goes on to the upload stage.
C22_NullCaptionFallsBack ==
  [][\A p \in Procs :
       (runs[p].pc = "caption" /\ runs'[p].pc # "caption") =>
         /\ runs'[p].pc = "publish"
         /\ runs'[p].failedStage = 0]_vars

\* run p is inside processVideoPipeline: between selecting its video and the
\* end of the cleanup
InPipeline(p) ==
  runs[p].pc \in {"download", "transform", "caption", "publish",
                  "recordRead", "recordWrite", "cleanup"}

\* C23: no two runs are inside the pipeline for the same video at the same
\* time, so no two runs are writing that video's ledger record at once.
C23_OneRunPerTask ==
  \A p, q \in Procs :
    (p # q /\ InPipeline(p) /\ InPipeline(q)) => runs[p].video # runs[q].video

\* the operations of the batch that are being executed
RunningItems == {p \in 1..MaxItems : batch.item[p] = "running"}

\* C24: in parallel mode at most maxConcurrency operations are being executed
\* at any moment, and an operation of the next chunk is invoked only when
\* every operation of the chunk in flight has settled.
C24_ConcurrencyBounded ==
  [][(batch'.pc = "parallel") =>
       /\ Cardinality(RunningItems') <= batch'.maxConcurrency
       /\ \A p \in RunningItems' :
            \E j \in 1..Len(batch'.chunks[batch'.chunkNo]) :
              batch'.chunks[batch'.chunkNo][j] = p
       /\ (batch.pc = "parallel" /\ batch'.chunkNo # batch.chunkNo) =>
            RunningItems = {}]_vars

\* three operations with maxConcurrency 2: the second chunk is in flight
C24_Witness ==
  /\ batch.pc = "parallel"
  /\ batch.n = 3
  /\ batch.maxConcurrency = 2
  /\ batch.chunkNo = 2
  /\ RunningItems = {3}

\* C25: for every attemptNumber >= 0, integer baseDelay >= 0 and integer
\* multiplier >= 1 and every value of the random source in [0, 1), the delay
\* is at least baseDelay * multiplier^attemptNumber and at most that times
\* 1.1 (jitter fraction 0.1).
C25_DelayWithinJitter ==
  delayCall.called =>
    LET exponentialDelay ==
          ExponentialDelay(delayCall.baseDelay, delayCall.attemptNumber,
                           delayCall.multiplier)
    IN /\ exponentialDelay <= delayCall.result
       /\ delayCall.result * JitterDivisor
            <= exponentialDelay * (JitterDivisor + 1)

\* a delay that the jitter has made longer than the exponential delay
C25_Witness ==
  /\ delayCall.called
  /\ delayCall.attemptNumber >= 2
  /\ delayCall.random > 0
  /\ delayCall.result > ExponentialDelay(delayCall.baseDelay,
                                         delayCall.attemptNumber,
                                         delayCall.multiplier)

\* C26: withRetry sleeps once after each failed attempt a < maxRetries, with
\* the delay of attempt number a - 1, and never after the last attempt: every
\* sleep lies between two consecutive invocations, and a call whose attempts
\* all failed has slept maxRetries - 1 times.
C26_SleepsBetweenAttempts ==
  [][\A k \in Callers :
       LET c == calls[k]
           d == calls'[k]
       IN /\ d.pc = "sleep" =>
               /\ d.attempt < d.maxRetries
               /\ d.slept = d.attempt /\ d.fails = d.attempt
               /\ d.invoked = d.attempt
               /\ d.delayArg = d.attempt - 1
          /\ d.pc = "running" => d.slept = d.invoked - 1
          /\ d.outcome = "exhausted" =>
               d.slept = d.maxRetries - 1 /\ d.invoked = d.maxRetries
          /\ (c.pc = "sleep" /\ d.pc # "sleep") =>
               d.pc = "running" /\ d.invoked = c.invoked + 1
          /\ (c.pc # "idle" /\ d.pc # "idle" /\ d.slept # c.slept) =>
               /\ c.pc = "running" /\ d.pc = "sleep"
               /\ d.slept = c.slept + 1]_vars

\* a call of two attempts has failed twice and slept once, in between
C26_Witness ==
  \E k \in Callers :
    /\ calls[k].outcome = "exhausted"
    /\ calls[k].maxRetries = MaxAttempts
    /\ calls[k].slept = MaxAttempts - 1
    /\ calls[k].delayArg = MaxAttempts - 2

\* C27: a successful guarded call for X deletes X's breaker entry, so the
\* failures counted start again from zero: the breaker of X is open only
\* when at least circuitBreakerThreshold failures were counted since the
\* last success (threshold - 1 failures, a success and threshold - 1
\* failures leave it closed).
C27_SuccessResetsCount ==
  [][/\ \A k \in Callers :
          (calls[k].pc = "settled" /\ calls[k].outcome = "ok"
             /\ calls'[k].pc = "done")
            => ~circuitState'[calls[k].name].present
     /\ \A n \in GuardedNames :
          circuitState'[n].isOpen
            => circuitState'[n].failures >= options.circuitBreakerThreshold]_vars

\* the operations of the batch that were invoked
InvokedItems == {p \in 1..MaxItems : batch.item[p] # "pending"}

\* the entries of a sequence carry the input index of their operation, in
\* increasing order
InInputOrder(entries) ==
  /\ \A e \in 1..Len(entries) : entries[e].index = entries[e].item - 1
  /\ \A e, f \in 1..Len(entries) :
       e < f => entries[e].index < entries[f].index

\* C28: in sequential mode the operations are invoked one at a time in input
\* order (the operation running is the first one not settled, the ones after
\* it are not invoked yet); the entries of results and of errors are in input
\* order with index = input position; with failFast no operation after the
\* first failing one is invoked; without failFast every operation is invoked.
C28_SequentialInOrder ==
  (batch.pc \in {"sequential", "done"} /\ ~batch.parallel) =>
    /\ Cardinality(RunningItems) <= 1
    /\ \A p \in RunningItems :
         /\ \A q \in 1..(p - 1) : batch.item[q] \in {"ok", "failed"}
         /\ \A q \in (p + 1)..MaxItems : batch.item[q] = "pending"
    /\ \A p \in InvokedItems : \A q \in 1..(p - 1) : q \in InvokedItems
    /\ InInputOrder(batch.results)
    /\ InInputOrder(batch.errors)
    /\ {batch.results[e].item : e \in 1..Len(batch.results)}
         = {p \in 1..MaxItems : batch.item[p] = "ok"}
    /\ {batch.errors[e].item : e \in 1..Len(batch.errors)} = FailedItems
    /\ batch.failFast =>
         \A p \in FailedItems : \A q \in (p + 1)..MaxItems : q \notin InvokedItems
    /\ (batch.pc = "done" /\ ~batch.failFast) =>
         \A p \in 1..batch.n : batch.item[p] \in {"ok", "failed"}

\* a sequential failFast batch of three operations has stopped at the second
C28_Witness ==
  /\ batch.pc = "done"
  /\ ~batch.parallel
  /\ batch.failFast
  /\ batch.n = MaxItems
  /\ batch.item[1] = "ok"
  /\ batch.item[2] = "failed"
  /\ batch.item[MaxItems] = "pending"
  /\ Len(batch.results) = 1
  /\ Len(batch.errors) = 1

\* the cleanup of run p has just finished although the removal of an
\* artifact it had to remove failed (the artifact is still tracked)
CleanupFailed(p) ==
  /\ runs[p].pc = "cleanup"
  /\ runs'[p].pc # "cleanup"
  /\ runs'[p].tempFiles \cap CleanupPaths(runs[p]) # {}

C30_FailureIsReturned ==
  [][\A p \in Procs :
       /\ runs'[p].failedStage # 0 =>
            /\ runs'[p].failedStage \in 1..RecordStep
            /\ runs'[p].pc \in {"cleanup", "final"}
            /\ runs'[p].pc = "cleanup" =>
                 runs'[p].result = "none" /\ runs'[p].isProcessing
            /\ runs'[p].pc = "final" =>
                 runs'[p].result = "failed" /\ ~runs'[p].isProcessing
       /\ (runs[p].failedStage = 0 /\ runs'[p].failedStage # 0) =>
            runs'[p].pc = "cleanup"
       /\ (runs[p].failedStage # 0 /\ runs'[p].pc = "done") =>
            runs'[p].result = "failed" /\ ~runs'[p].isProcessing]_vars

\* a run whose ledger write failed after a successful upload has returned
\* the failed outcome
C30_Witness ==
  \E p \in Procs :
    /\ Returned(p)
    /\ runs[p].failedStage = RecordStep
    /\ runs[p].video \in published
    /\ runs[p].result = "failed"
    /\ ~runs[p].isProcessing

\* the invocations of stage `stage` that run `run` has made
StageInvocations(run, stage) ==
  IF stage = 4 THEN run.uploadAttempts
  ELSE Cardinality({i \in 1..Len(run.invoked) : run.invoked[i] = stage})

\* run p goes from a stage to the cleanup of the catch block
StageFails(p) ==
  /\ runs[p].failedStage = 0
  /\ runs'[p].failedStage \in 1..Len(Stages)

StrictlyIncreasing(stages) ==
  \A i, j \in 1..Len(stages) : i < j => stages[i] < stages[j]

\* C32: one run processes at most one task and runs its stage sequence at
\* most once: the task of a run never changes, no stage is entered twice,
\* after a stage failure the run only cleans up and ends (it enters no stage
\* and selects nothing), and a run that has ended does nothing more.
C32_OneTaskOnePass ==
  [][\A p \in Procs :
       /\ (runs[p].video # NoVideo /\ runs'[p].pc # "done") =>
            runs'[p].video = runs[p].video
       /\ StrictlyIncreasing(runs'[p].invoked)
       /\ runs[p].failedStage # 0 =>
            /\ runs'[p].pc \in {"cleanup", "final", "done"}
            /\ runs'[p].pc # "done" =>
                 /\ runs'[p].invoked = runs[p].invoked
                 /\ runs'[p].failedStage = runs[p].failedStage
       /\ runs[p].pc = "final" => runs'[p].pc \in {"final", "done"}
       /\ runs[p].pc = "done" => runs'[p] = runs[p]]_vars

\* a run whose transform stage failed has returned while another task without
\* a record was available
C32_Witness ==
  \E p \in Procs :
    /\ Returned(p)
    /\ runs[p].failedStage = 2
    /\ runs[p].invoked = <<1, 2>>
    /\ \E t \in Tasks : t # runs[p].video /\ ledger[t] = "none"

\* C33: when no video is listed, or every listed video already has a ledger
\* record, the run ends with the empty outcome: no stage is executed, the
\* run writes nothing to the ledger, and the flag is cleared.
C33_NothingToDoIsEmpty ==
  [][\A p \in Procs :
       /\ (runs[p].pc = "reading" /\ runs'[p].pc # "reading"
             /\ \A t \in Tasks : ledger[t] # "none") =>
            runs'[p].pc = "final" /\ runs'[p].result = "empty"
       /\ (runs[p].pc = "reading" /\ runs'[p].result = "empty") =>
            \A t \in Tasks : ledger[t] # "none"
       /\ (runs[p].result # "empty" /\ runs'[p].result = "empty") =>
            /\ runs[p].pc \in {"listing", "reading"}
            /\ runs'[p].pc = "final"
            /\ ledger' = ledger
       /\ runs'[p].result = "empty" =>
            /\ runs'[p].pc \in {"final", "done"}
            /\ runs'[p].video = NoVideo
            /\ runs'[p].invoked = <<>>
            /\ runs'[p].wrote = 0
            /\ runs'[p].data = NoData
            /\ ~runs'[p].isProcessing]_vars


\* C34: once the breaker of X is open it stays open until the timeout has
\* elapsed: the entry of X stops being open only at a time at least
\* circuitBreakerTimeout after openedAt, whatever guarded calls for X that
\* were admitted earlier do when they complete.
C34_OpenUntilTimeout ==
  [][\A n \in GuardedNames :
       (circuitState[n].isOpen /\ ~circuitState'[n].isOpen) =>
         now - circuitState[n].openedAt >= options.circuitBreakerTimeout]_vars


\* C35: a guarded call changes the failure count of its name by at most one,
\* however many attempts it made: the attempts and sleeps inside an admitted
\* call leave the breaker alone and are never cut short by it (a call that
\* invoked its operation never ends as rejected by the breaker, and a failed
\* call has made all its attempts), and the count goes up by one only when
\* a failed guarded call settles.
C35_OneCountPerCall ==
  [][/\ \A n \in GuardedNames :
          /\ circuitState'[n].failures <= circuitState[n].failures + 1
          /\ circuitState'[n].failures = circuitState[n].failures + 1 =>
               \E k \in Callers :
                 /\ calls[k].pc = "settled" /\ calls'[k].pc = "done"
                 /\ calls[k].name = n
                 /\ calls[k].outcome = "exhausted"
                 /\ calls[k].invoked = calls[k].maxRetries
                 /\ \A j \in Callers \ {k} : calls'[j] = calls[j]
     /\ \A k \in Callers :
          /\ (calls[k].pc \in {"running", "sleep"} /\ calls'[k] # calls[k]) =>
               /\ circuitState' = circuitState
               /\ calls'[k].outcome # "circuitOpen"
               /\ calls[k].pc = "sleep" => calls'[k].pc = "running"
          /\ calls'[k].outcome = "circuitOpen" => calls'[k].invoked = 0
          /\ calls'[k].outcome = "exhausted" =>
               calls'[k].invoked = calls'[k].maxRetries]_vars

\* a guarded call that failed after two attempts has been counted once
C35_Witness ==
  \E k \in Callers :
    /\ calls[k].pc = "done"
    /\ calls[k].outcome = "exhausted"
    /\ calls[k].invoked = MaxAttempts
    /\ circuitState[calls[k].name].present
    /\ circuitState[calls[k].name].failures = 1


\* downloadVideo: filePath = path.join(destinationDir, sanitizeFilename(video.name)),
\* the file of the download artifact of a run is named after its video
DownloadFile(run) == run.video

\* run p is in one of the four stages of its pipeline
InStages(p) == StageOf(runs[p].pc) # 0

\* this step removes the download artifact of run p from the disk: in
\* cleanupTempFiles, or in performFinalCleanup when it was still tracked
DeletesDownload(p) ==
  \/ /\ runs[p].pc = "cleanup" /\ runs'[p].pc = "final"
     /\ "download" \in runs'[p].cleaned
     /\ "download" \notin runs'[p].tempFiles
  \/ /\ runs[p].pc = "final" /\ runs'[p].pc = "done"
     /\ "download" \in runs[p].tempFiles

\* C36: the cleanup of a run does not reach into the stages of another run:
\* no run that is in its stages has the file of its download artifact
\* removed by the cleanup of another run.
C36_CleanupNeverOverlapsStages ==
  [][\A p, q \in Procs :
       (p # q /\ InStages(q)) =>
         ~(/\ DeletesDownload(p)
           /\ runs[q].downloadPath
           /\ DownloadFile(runs[q]) = DownloadFile(runs[p]))]_vars


\* C37: the completion of a run only ends that run: when a stopped run
\* finishes while a run accepted later is still executing, the flag set by
\* the later run stays set and the status is not overwritten.
C37_CompletionEndsOwnRunOnly ==
  [][\A p \in stoppedRuns :
       (/\ processors[p] = "running" /\ processors'[p] # "running"
        /\ isProcessing
        /\ \E q \in ActivePipelines : q > p /\ q \notin stoppedRuns) =>
          /\ isProcessing'
          /\ lastProcessResult' = lastProcessResult]_vars


\* C38: ledger records are never lost by later writes: a task that has a
\* record in the ledger (its write completed) still has one after every
\* later step, including writes for other tasks that overlap.
C38_RecordsNeverLost ==
  [][\A t \in Tasks : ledger[t] # "none" => ledger'[t] # "none"]_vars


\* the operation name a step of caller k is made for
StepName(k) == IF calls[k].pc = "idle" THEN calls'[k].name ELSE calls[k].name

\* C39: breaker state is independent per operation name: a step changes the
\* entry of at most one name; a guarded call for X leaves the entries of the
\* other names as they are, and is rejected only when the entry of X is
\* open; and the entry of a name becomes open only when a failed guarded call
\* for that name is recorded.
C39_NamesIndependent ==
  [][/\ \A n, m \in Names :
          n # m => ~(circuitState'[n] # circuitState[n]
                       /\ circuitState'[m] # circuitState[m])
     /\ \A k \in Callers :
          calls'[k] # calls[k] =>
            /\ \A n \in Names \ {StepName(k)} :
                 circuitState'[n] = circuitState[n]
            /\ (calls[k].pc = "idle" /\ calls'[k].outcome = "circuitOpen") =>
                 circuitState[StepName(k)].isOpen
     /\ \A n \in Names :
          (circuitState'[n].isOpen /\ ~circuitState[n].isOpen) =>
            \E k \in Callers :
              /\ calls[k].pc = "settled" /\ calls'[k].pc = "done"
              /\ calls[k].name = n
              /\ calls[k].outcome = "exhausted"]_vars

\* while the breaker of X is open, a guarded call for Y has been admitted
\* and has succeeded
C39_Witness ==
  /\ circuitState["X"].isOpen
  /\ ~circuitState["Y"].isOpen
  /\ calls["c1"].name = "Y"
  /\ calls["c1"].pc = "settled"
  /\ calls["c1"].outcome = "ok"


\* the concatenation of the chunks of a sequence of chunks
RECURSIVE Concat(_)
Concat(chunks) ==
  IF chunks = <<>> THEN <<>> ELSE Head(chunks) \o Concat(Tail(chunks))

\* C40: chunkArray terminates and returns well-formed chunks for every chunk
\* size batchRetry can hand it, 0 included: every pass of the loop pushes a
\* non-empty chunk and advances i, so there are never more chunks than
\* elements; and the chunks returned concatenate to the input in order, all
\* but the last of exactly chunkSize elements.
C40_ChunkArrayTerminates ==
  [][/\ (chunkCall.pc = "loop" /\ chunkCall'.pc = "loop") =>
          /\ chunkCall'.i > chunkCall.i
          /\ Len(chunkCall'.chunks) = Len(chunkCall.chunks) + 1
          /\ chunkCall'.chunks[Len(chunkCall'.chunks)] # <<>>
          /\ Len(chunkCall'.chunks) <= Len(chunkCall'.array)
     /\ chunkCall'.pc = "done" =>
          /\ Concat(chunkCall'.chunks) = chunkCall'.array
          /\ \A c \in 1..Len(chunkCall'.chunks) :
               /\ chunkCall'.chunks[c] # <<>>
               /\ c < Len(chunkCall'.chunks) =>
                    Len(chunkCall'.chunks[c]) = chunkCall'.chunkSize]_vars

=============================================================================
